---- MODULE Spec2Model ----
(***************************************************************************)
(* Model of miasm2/jitter/loader/pe.py: the PE loader (vm_load_pe), the    *)
(* export-forwarder test (is_redirected_export), the export ingestion of   *)
(* the library registry (libimp_pe.add_export_lib) and the import          *)
(* directory regeneration (libimp_pe.gen_new_lib).                         *)
(*                                                                         *)
(* Byte strings are sequences of byte values 0..255.  Python dicts are     *)
(* functions; the empty dict is the empty function <<>>.                   *)
(***************************************************************************)
EXTENDS Integers, Sequences, FiniteSets, TLC

VARIABLES
    \* libimp registry (one instance per session)
    name2off,          \* library name -> base address
    libbase2lastad,    \* base -> next free synthetic address
    lib_imp2ad,        \* base -> (identifier -> resolved address)
    lib_imp2dstad,     \* base -> (identifier -> set of patched slot addresses)
    libbase_ad,        \* next library base counter
    fad2cname,         \* address -> canonical name
    fad2info,          \* address -> <<base, identifier>>
    all_exported_lib,  \* list of images that went through add_export_lib
    \* frame of the running call
    pc,                \* "idle" | "loop" | "done" | "raised"
    exc,               \* "none" | "ValueError" | "KeyError" | "NameError" | "IndexError"
    e,                 \* add_export_lib / is_redirected_export: the image argument
    name,              \* add_export_lib: the name argument
    libad,             \* add_export_lib: local libad (Unbound when never assigned)
    todo,              \* add_export_lib: the worklist
    ad,                \* is_redirected_export: the address argument
    ret,               \* is_redirected_export: the returned value
    \* gen_new_lib
    target_pe,         \* the target image
    filt,              \* the set of addresses the filter accepts
    new_lib,           \* the returned list of descriptors
    \* vm_load_pe
    fdata,             \* the parsed PE and the call's flags
    vm                 \* the memory pages added, in order

regvars   == <<name2off, libbase2lastad, lib_imp2ad, lib_imp2dstad, libbase_ad,
               fad2cname, fad2info, all_exported_lib>>
framevars == <<e, name, libad, todo>>
fwdvars   == <<ad, ret>>
genvars   == <<target_pe, filt, new_lib>>
loadvars  == <<fdata, vm>>
vars      == <<regvars, pc, exc, framevars, fwdvars, genvars, loadvars>>

----------------------------------------------------------------------------
(* Bytes and strings *)

NUL == 0
DOT == 46

\* str.isalnum() of one byte
IsAlnum(c) == c \in (48..57) \cup (65..90) \cup (97..122)

\* the bytes of "_.-+*$@&#()[]={}"
PunctBytes == {95, 46, 45, 43, 42, 36, 64, 38, 35, 40, 41, 91, 93, 61, 123, 125}

AllowedByte(c) == IsAlnum(c) \/ c \in PunctBytes

\* str.lower()
LowerByte(c) == IF c \in 65..90 THEN c + 32 ELSE c
Lower(s) == [i \in 1..Len(s) |-> LowerByte(s[i])]

\* ".dll"
DllSuffix == <<46, 100, 108, 108>>

Range(s) == {s[i] : i \in 1..Len(s)}

\* str.find of one byte that occurs in s (1-based)
Find(s, c) == CHOOSE i \in 1..Len(s) : s[i] = c /\ \A j \in 1..(i - 1) : s[j] /= c

\* dict[k] = v
Put(d, k, v) == [x \in DOMAIN d \cup {k} |-> IF x = k THEN v ELSE d[x]]

----------------------------------------------------------------------------
(* Images.  The memory of an image is a sequence of slots of SlotLen bytes  *)
(* each, slot k starting at rva (k-1)*SlotLen; a slot holds the bytes of    *)
(* prefix followed by the byte fill up to its end.                          *)

SlotLen == 1024

SlotRva(k) == (k - 1) * SlotLen

\* e.virt(ad): the byte at virtual address a
Virt(img, a) ==
    LET rva == a - img.ImageBase
        k   == (rva \div SlotLen) + 1
        off == rva % SlotLen
        s   == img.mem[k]
    IN  IF off < Len(s.prefix) THEN s.prefix[off + 1] ELSE s.fill

\* e.rva2virt(rva)
Rva2Virt(img, rva) == img.ImageBase + rva

----------------------------------------------------------------------------
(* is_redirected_export *)

WindowLen == 512

NotRedirected == [redirected |-> FALSE, dname |-> <<>>, fname |-> <<>>]

\* the for loop "for i in xrange(0x200)": it ends at the first i whose byte
\* is NUL (break) or is not allowed (return False), or after the last i;
\* out holds the bytes appended before it ends.  [ok, out] is its outcome
LoopEnds(img, a, i) ==
    LET c == Virt(img, a + i) IN c = NUL \/ ~AllowedByte(c)

ScanExport(img, a) ==
    IF \A i \in 0..(WindowLen - 1) : ~LoopEnds(img, a, i)
      THEN [ok |-> TRUE, out |-> [k \in 1..WindowLen |-> Virt(img, a + k - 1)]]
      ELSE LET i == CHOOSE x \in 0..(WindowLen - 1) :
                       LoopEnds(img, a, x) /\ \A j \in 0..(x - 1) : ~LoopEnds(img, a, j)
           IN  IF Virt(img, a + i) = NUL
                 THEN [ok |-> TRUE, out |-> [k \in 1..i |-> Virt(img, a + k - 1)]]
                 ELSE [ok |-> FALSE, out |-> [k \in 1..(i + 1) |-> Virt(img, a + k - 1)]]

\* the split at the first '.'
SplitAtDot(out) ==
    LET i == Find(out, DOT)
    IN  [redirected |-> TRUE,
         dname |-> SubSeq(out, 1, i - 1),
         fname |-> SubSeq(out, i + 1, Len(out))]

IsRedirectedExport(img, a) ==
    LET r == ScanExport(img, a)
    IN  IF ~r.ok THEN NotRedirected
        ELSE IF DOT \notin Range(r.out) THEN NotRedirected
        ELSE SplitAtDot(r.out)

----------------------------------------------------------------------------
(* Export directory *)

\* identifiers of exports: a name (str) or an adjusted ordinal (int)
NameId(s) == [kind |-> "name", str |-> s, ord |-> 0]
OrdId(n)  == [kind |-> "ord", str |-> <<>>, ord |-> n]

\* get_export_name_addr_list: the (identifier, address) pairs by name, then
\* the pairs by ordinal
ExportAddr(img, o) == Rva2Virt(img, img.f_address[o + 1])

GetExportNameAddrList(img) ==
    [i \in 1..Len(img.f_names) |->
        [id |-> NameId(img.f_names[i]),
         ad |-> ExportAddr(img, img.f_nameordinals[i])]]
    \o
    [i \in 1..Len(img.f_nameordinals) |->
        [id |-> OrdId(img.f_nameordinals[i] + img.expbase),
         ad |-> ExportAddr(img, img.f_nameordinals[i])]]

----------------------------------------------------------------------------
(* libimp_pe.add_export_lib *)

\* local libad of a call that took the "name in self.name2off" branch
Unbound == -1

\* canon_libname_libfunc(libname, identifier)
CanonLibnameLibfunc(libname, id) == <<libname, id>>

\* mutant: every name is taken for a new one
RegisteredNever(n2o, nm) == FALSE

\* name in self.name2off
Registered(n2o, nm) == nm \in DOMAIN n2o

\* mutant: no forwarder is taken for a reference into the ingested library
IsSelfRefNever(exp_dname, nm) == FALSE

\* exp_dname == name
IsSelfRef(exp_dname, nm) == exp_dname = nm

\* exp_fname in self.lib_imp2ad[libad_tmp]
Resolved(tbl, sym) == sym \in DOMAIN tbl

\* mutant: the deferred entry is dropped
RequeueDrop(entry, rest) == rest

\* todo = [(imp_ord_or_name, ad)] + todo
Requeue(entry, rest) == <<entry>> \o rest

\* mutant: the forwarder target library is never checked
TargetUnknownNever(n2o, exp_dname) == FALSE

\* not exp_dname in self.name2off
TargetUnknown(n2o, exp_dname) == exp_dname \notin DOMAIN n2o

\* exp_dname = (exp_dname + '.dll').lower()
DllName(dname) == Lower(dname \o DllSuffix)

\* what one iteration of the while loop does with the popped entry:
\* record an address, requeue the entry, or raise
Outcome(n2o, imp2ad, img, nm, entry) ==
    LET r == IsRedirectedExport(img, entry.ad) IN
    IF ~r.redirected THEN [kind |-> "record", ad |-> entry.ad]
    ELSE
      LET exp_dname == DllName(r.dname)
          sym       == NameId(r.fname)
      IN  IF exp_dname \notin DOMAIN n2o
            THEN IF ~IsSelfRef(exp_dname, nm) /\ TargetUnknown(n2o, exp_dname)
                   THEN [kind |-> "ValueError", ad |-> 0]
                   ELSE [kind |-> "KeyError", ad |-> 0]
          ELSE IF IsSelfRef(exp_dname, nm) /\ ~Resolved(imp2ad[n2o[exp_dname]], sym)
            THEN [kind |-> "requeue", ad |-> 0]
          ELSE IF ~IsSelfRef(exp_dname, nm) /\ TargetUnknown(n2o, exp_dname)
            THEN [kind |-> "ValueError", ad |-> 0]
          ELSE IF sym \notin DOMAIN imp2ad[n2o[exp_dname]]
            THEN [kind |-> "KeyError", ad |-> 0]
          ELSE [kind |-> "record", ad |-> imp2ad[n2o[exp_dname]][sym]]

\* name_inv[libad]: the dict built from name2off.items() keeps one name per base
NameInv(n2o, b) == {n \in DOMAIN n2o : n2o[n] = b}

\* self.lib_imp2ad[libad][imp_ord_or_name] = ad
SetImp2Ad(imp2ad, b, id, a) == Put(imp2ad, b, Put(imp2ad[b], id, a))

\* self.fad2cname[ad] = c_name
SetFad2Cname(cnames, a, c_name) == Put(cnames, a, c_name)

\* mutant: fad2info is not updated
SetFad2InfoSkip(infos, a, b, id) == infos

\* self.fad2info[ad] = libad, imp_ord_or_name
SetFad2Info(infos, a, b, id) == Put(infos, a, <<b, id>>)

\* the tables of a new library
NewLibTable(tbl, b) == Put(tbl, b, <<>>)

\* the base of a new library
NewLibBase(img) == img.ImageBase

PopEntry == todo[Len(todo)]
PopRest  == SubSeq(todo, 1, Len(todo) - 1)
CurOutcome == Outcome(name2off, lib_imp2ad, e, name, PopEntry)

AfterIteration(rest) == IF rest = <<>> THEN "done" ELSE "loop"

\* add_export_lib(e, name), name already registered
AddExportLibKnown(img, nm) ==
    /\ pc /= "loop"
    /\ Registered(name2off, nm)
    /\ all_exported_lib' = Append(all_exported_lib, img)
    /\ e' = img /\ name' = nm /\ libad' = Unbound /\ todo' = <<>>
    /\ pc' = "done" /\ exc' = "none"
    /\ UNCHANGED <<name2off, libbase2lastad, lib_imp2ad, lib_imp2dstad,
                   libbase_ad, fad2cname, fad2info>>

\* add_export_lib(e, name), new name: registration, up to the while loop
AddExportLibNew(img, nm) ==
    /\ pc /= "loop"
    /\ ~Registered(name2off, nm)
    /\ all_exported_lib' = Append(all_exported_lib, img)
    /\ LET b == NewLibBase(img) IN
         /\ libad' = b
         /\ name2off' = Put(name2off, nm, b)
         /\ libbase2lastad' = Put(libbase2lastad, b, b + 1)
         /\ lib_imp2ad' = NewLibTable(lib_imp2ad, b)
         /\ lib_imp2dstad' = NewLibTable(lib_imp2dstad, b)
    /\ libbase_ad' = libbase_ad + 4096
    /\ e' = img /\ name' = nm
    /\ todo' = GetExportNameAddrList(img)
    /\ pc' = AfterIteration(todo') /\ exc' = "none"
    /\ UNCHANGED <<fad2cname, fad2info>>

\* one iteration: the popped entry is recorded (a direct address, or the
\* address its forwarder resolves to)
LoopRecord ==
    /\ pc = "loop"
    /\ CurOutcome.kind = "record"
    /\ LET a == CurOutcome.ad IN
         /\ lib_imp2ad' = SetImp2Ad(lib_imp2ad, libad, PopEntry.id, a)
         /\ \E n \in NameInv(name2off, libad) :
                fad2cname' = SetFad2Cname(fad2cname, a, CanonLibnameLibfunc(n, PopEntry.id))
         /\ fad2info' = SetFad2Info(fad2info, a, libad, PopEntry.id)
    /\ todo' = PopRest
    /\ pc' = AfterIteration(todo')
    /\ UNCHANGED <<name2off, libbase2lastad, lib_imp2dstad, libbase_ad,
                   all_exported_lib, exc, e, name, libad>>

\* one iteration: a forwarder into the library being ingested whose target
\* is not recorded yet goes back to the front of the worklist
LoopRequeue ==
    /\ pc = "loop"
    /\ CurOutcome.kind = "requeue"
    /\ todo' = Requeue(PopEntry, PopRest)
    /\ pc' = AfterIteration(todo')
    /\ UNCHANGED <<regvars, exc, e, name, libad>>

\* one iteration: raise ValueError('load %r first') or KeyError
LoopRaise ==
    /\ pc = "loop"
    /\ CurOutcome.kind \in {"ValueError", "KeyError"}
    /\ todo' = PopRest
    /\ pc' = "raised"
    /\ exc' = CurOutcome.kind
    /\ UNCHANGED <<regvars, e, name, libad>>

----------------------------------------------------------------------------
(* The images and names the calls are made with *)

MaxCalls == 2

a_dll == <<97, 46, 100, 108, 108>>
b_dll == <<98, 46, 100, 108, 108>>
c_dll == <<99, 46, 100, 108, 108>>
LibNames == {a_dll, b_dll, c_dll}

foo == <<102, 111, 111>>
bar == <<98, 97, 114>>
ExportNames == {foo, bar}

\* slot 1: code; slot 2: "A.bar\0"; slot 3: "B.bar\0"; slot 4: "A.foo\0"
ExportData ==
    << [prefix |-> <<139, 255, 85>>, fill |-> 144],
       [prefix |-> <<65, 46>> \o bar, fill |-> NUL],
       [prefix |-> <<66, 46>> \o bar, fill |-> NUL],
       [prefix |-> <<65, 46>> \o foo, fill |-> NUL] >>

ImageBases == {65536, 131072}

\* the name tables: every sequence without repetition over ExportNames
NameTables ==
    {s \in UNION {[1..n -> ExportNames] : n \in 0..Cardinality(ExportNames)} :
        \A i, j \in 1..Len(s) : i /= j => s[i] /= s[j]}

Images ==
    {[ImageBase |-> b, expbase |-> 1, f_names |-> ns,
      f_nameordinals |-> [i \in 1..Len(ns) |-> i - 1],
      f_address |-> fa, mem |-> ExportData] :
        b \in ImageBases,
        ns \in NameTables,
        fa \in UNION {[1..n -> {SlotRva(k) : k \in 1..Len(ExportData)}] :
                        n \in 0..Cardinality(ExportNames)}}

ExportImages == {img \in Images : Len(img.f_address) = Len(img.f_names)}

NoImage == [ImageBase |-> 0, expbase |-> 0, f_names |-> <<>>,
            f_nameordinals |-> <<>>, f_address |-> <<>>, mem |-> <<>>]

\* the registry after construction
RegistryInit ==
    /\ name2off = <<>> /\ libbase2lastad = <<>>
    /\ lib_imp2ad = <<>> /\ lib_imp2dstad = <<>>
    /\ libbase_ad = 0
    /\ fad2cname = <<>> /\ fad2info = <<>>
    /\ all_exported_lib = <<>>

FrameInit == e = NoImage /\ name = <<>> /\ libad = Unbound /\ todo = <<>>
FwdInit   == ad = 0 /\ ret = NotRedirected
GenInit   == target_pe = NoImage /\ filt = {} /\ new_lib = <<>>
LoadInit  == fdata = <<>> /\ vm = <<>>

Init ==
    /\ RegistryInit /\ FrameInit /\ FwdInit /\ GenInit /\ LoadInit
    /\ pc = "idle" /\ exc = "none"

AddExportLib ==
    /\ Len(all_exported_lib) < MaxCalls
    /\ \E img \in ExportImages, nm \in LibNames :
          \/ AddExportLibKnown(img, nm)
          \/ AddExportLibNew(img, nm)
    /\ UNCHANGED <<fwdvars, genvars, loadvars>>

Loop ==
    /\ \/ LoopRecord
       \/ LoopRequeue
       \/ LoopRaise
    /\ UNCHANGED <<fwdvars, genvars, loadvars>>

Next == AddExportLib \/ Loop

Spec == Init /\ [][Next]_vars

----------------------------------------------------------------------------
(* What the export table of an image says, read off the image itself *)

ExportSlot(img, i) == img.mem[(img.f_address[img.f_nameordinals[i] + 1] \div SlotLen) + 1]

\* export i points at code: its first byte is no byte of a forwarder string
PointsAtCode(img, i) == ~AllowedByte(ExportSlot(img, i).prefix[1])

\* export i points at the NUL-terminated string "<mod>.<sym>"
PointsAtString(img, i, mod, sym) ==
    ExportSlot(img, i) = [prefix |-> mod \o <<DOT>> \o sym, fill |-> NUL]

ModuleLetters == {<<65>>, <<66>>}
LibOfLetter(mod) == Lower(mod) \o DllSuffix

\* export i forwards to symbol sym of library lib
ForwardsTo(img, i, lib, sym) ==
    \E mod \in ModuleLetters : LibOfLetter(mod) = lib /\ PointsAtString(img, i, mod, sym)

ForwardsInto(img, i, lib) == \E sym \in ExportNames : ForwardsTo(img, i, lib, sym)

ExportIndexes(img) == 1..Len(img.f_names)

RawAddr(img, i) == img.ImageBase + img.f_address[img.f_nameordinals[i] + 1]

\* the identifiers export i is listed under
IdsOf(img, i) == {NameId(img.f_names[i]), OrdId(img.f_nameordinals[i] + img.expbase)}

\* the names of the library being ingested that can ever be recorded: those
\* that are no forwarder into the library itself, and those forwarding to one
\* of these
RECURSIVE Recordable(_, _, _)
Recordable(img, lib, n) ==
    IF n = 0
      THEN {img.f_names[i] : i \in {j \in ExportIndexes(img) : ~ForwardsInto(img, j, lib)}}
      ELSE LET prev == Recordable(img, lib, n - 1) IN
           prev \cup {img.f_names[i] : i \in {j \in ExportIndexes(img) :
                           \E sym \in prev : ForwardsTo(img, j, lib, sym)}}

\* some forwarder into the library itself names a symbol that is never recorded
Stuck(img, lib) ==
    \E i \in ExportIndexes(img) :
        /\ ForwardsInto(img, i, lib)
        /\ img.f_names[i] \notin Recordable(img, lib, Len(img.f_names))

\* export i forwards to a module that is neither lib nor registered
MissingDependency(img, i, lib) ==
    \E other \in {LibOfLetter(m) : m \in ModuleLetters} :
        /\ other /= lib
        /\ other \notin DOMAIN name2off
        /\ ForwardsInto(img, i, other)

\* export i forwards to a symbol that a registered module other than lib lacks
DanglingSymbol(img, i, lib) ==
    \E other \in DOMAIN name2off \ {lib}, sym \in ExportNames :
        /\ ForwardsTo(img, i, other, sym)
        /\ NameId(sym) \notin DOMAIN lib_imp2ad[name2off[other]]

\* the running or last call registered its name
NewNameCall == libad /= Unbound

CurTable == lib_imp2ad[libad]

MapsTo(tbl, id, a) == id \in DOMAIN tbl /\ tbl[id] = a

----------------------------------------------------------------------------
(* Claims about add_export_lib *)

\* C1: with b.dll registered and its 'bar' resolved to X, ingesting a new
\* library whose only export 'foo' is the forwarder "B.bar" ends, without an
\* error, with 'foo' mapped to X.
C1_CrossLibraryForwarder ==
    ( /\ Len(all_exported_lib) = 2
      /\ DOMAIN name2off = {a_dll, b_dll}
      /\ name = a_dll
      /\ pc /= "loop"
      /\ all_exported_lib[1].f_names = <<bar>>
      /\ PointsAtCode(all_exported_lib[1], 1)
      /\ all_exported_lib[2].f_names = <<foo>>
      /\ ForwardsTo(all_exported_lib[2], 1, b_dll, bar) )
    => /\ pc = "done"
       /\ MapsTo(lib_imp2ad[name2off[a_dll]], NameId(foo), RawAddr(all_exported_lib[1], 1))

C3_MissingDependencyRaisesLoadFirst ==
    ( /\ pc \in {"done", "raised"}
      /\ NewNameCall
      /\ \A n1, n2 \in DOMAIN name2off : n1 /= n2 => name2off[n1] /= name2off[n2]
      /\ \E i \in ExportIndexes(e) : MissingDependency(e, i, name) )
    => (pc = "raised" /\ exc = "ValueError")

\* C3 (amended): a call under a new name for such an image never returns
\* normally: it ends in the 'load ... first' ValueError, or in the KeyError of
\* a forwarder to a symbol that a registered module lacks; the forwarding
\* export is never recorded and its module is never registered.
C3_MissingDependencyRaises ==
    \A i \in ExportIndexes(e) :
        (NewNameCall /\ MissingDependency(e, i, name))
        => /\ pc /= "done"
           /\ pc = "raised" =>
                \/ exc = "ValueError"
                \/ exc = "KeyError" /\ \E k \in ExportIndexes(e) : DanglingSymbol(e, k, name)
           /\ \A id \in IdsOf(e, i) : id \notin DOMAIN CurTable

C3_Witness ==
    /\ pc = "raised" /\ exc = "ValueError" /\ NewNameCall
    /\ \E i \in ExportIndexes(e) : MissingDependency(e, i, name)
    /\ DOMAIN CurTable /= {}

\* C4: every address stored in a symbol table is a key of fad2cname and of
\* fad2info.
C4_RegistryInvariant ==
    \A b \in DOMAIN lib_imp2ad : \A id \in DOMAIN lib_imp2ad[b] :
        /\ lib_imp2ad[b][id] \in DOMAIN fad2cname
        /\ lib_imp2ad[b][id] \in DOMAIN fad2info

\* C4 witness: a forwarder was resolved to an address of another library.
C4_Witness ==
    /\ pc = "done" /\ NewNameCall
    /\ \E i \in ExportIndexes(e) : \E id \in IdsOf(e, i) :
          /\ id \in DOMAIN CurTable
          /\ \E other \in DOMAIN name2off \ {name} :
                /\ name2off[other] /= libad
                /\ ForwardsInto(e, i, other)
                /\ CurTable[id] \in {lib_imp2ad[name2off[other]][x] :
                                        x \in DOMAIN lib_imp2ad[name2off[other]]}

\* C5 (as claimed): a call with a registered name records every export of the
\* given image in the table of the name's base.
C5_ReRegistrationProcessesExports ==
    (pc = "done" /\ ~NewNameCall /\ name \in DOMAIN name2off)
    => \A i \in ExportIndexes(e) : \A id \in IdsOf(e, i) :
          id \in DOMAIN lib_imp2ad[name2off[name]]

\* C5 (amended): a call with a registered name keeps the name's base, returns
\* at once and changes no table: none of the image's exports is processed;
\* only the image is appended to all_exported_lib.
C5_ReRegistrationKeepsTables ==
    [][ (name' \in DOMAIN name2off /\ all_exported_lib' /= all_exported_lib)
        => /\ all_exported_lib' = Append(all_exported_lib, e')
           /\ pc' = "done"
           /\ UNCHANGED <<name2off, libbase2lastad, lib_imp2ad, lib_imp2dstad,
                          fad2cname, fad2info>> ]_vars

C5_Witness ==
    /\ pc = "done" /\ ~NewNameCall /\ name \in DOMAIN name2off
    /\ Len(all_exported_lib) = 2
    /\ \E i \in ExportIndexes(e) : NameId(e.f_names[i]) \notin DOMAIN lib_imp2ad[name2off[name]]

\* C7 (as claimed): when a forwarder into the ingested library names a symbol
\* that is never recorded, the call neither returns nor raises.
C7_CircularForwardNeverEnds ==
    (NewNameCall /\ Stuck(e, name)) => pc = "loop"

\* C7 (amended): such a call never returns normally and its worklist never
\* empties; it ends only by the error of another export, a forwarder to a
\* module that is not registered or that lacks the symbol.
C7_CircularForwardNeverReturns ==
    (NewNameCall /\ Stuck(e, name))
    => /\ pc /= "done"
       /\ todo /= <<>>
       /\ pc = "raised" =>
             \E k \in ExportIndexes(e) :
                 MissingDependency(e, k, name) \/ DanglingSymbol(e, k, name)

\* C7 witness: two exports forward to each other and every entry left on the
\* worklist is requeued when popped.
C7_Witness ==
    /\ pc = "loop" /\ NewNameCall
    /\ \E i, j \in ExportIndexes(e) :
          /\ i /= j
          /\ ForwardsTo(e, i, name, e.f_names[j])
          /\ ForwardsTo(e, j, name, e.f_names[i])
    /\ \A k \in 1..Len(todo) :
          Outcome(name2off, lib_imp2ad, e, name, todo[k]).kind = "requeue"
    /\ todo[1].id.kind = "ord"

\* C10: distinct library names have distinct bases, so a library's tables are
\* its own.
C10_DistinctNamesDistinctBases ==
    \A n1, n2 \in DOMAIN name2off : n1 /= n2 => name2off[n1] /= name2off[n2]

----------------------------------------------------------------------------
(* is_redirected_export called on an image whose memory is drawn from a     *)
(* bounded set: slot 1 holds a short prefix and a fill byte, slot 2 a fill  *)
(* byte; the address lies at the start of slot 1, or so that the 512-byte   *)
(* window ends with the last byte of slot 1 or the first byte of slot 2.    *)

MaxPrefix == 2

\* NUL, '.', 'A' and '!'
FwdBytes == {NUL, DOT, 65, 33}

FwdPrefixes == UNION {[1..n -> FwdBytes] : n \in 0..MaxPrefix}

FwdImages ==
    {[ImageBase |-> 65536, expbase |-> 1, f_names |-> <<>>,
      f_nameordinals |-> <<>>, f_address |-> <<>>,
      mem |-> <<[prefix |-> p, fill |-> f], [prefix |-> <<>>, fill |-> g]>>] :
        p \in FwdPrefixes, f \in FwdBytes, g \in {NUL, 65}}

FwdOffsets == {0, SlotLen - WindowLen, SlotLen - WindowLen + 1}

InitFwd ==
    /\ RegistryInit /\ GenInit /\ LoadInit
    /\ name = <<>> /\ libad = Unbound /\ todo = <<>>
    /\ e \in FwdImages
    /\ ad \in {Rva2Virt(e, off) : off \in FwdOffsets}
    /\ ret = NotRedirected
    /\ pc = "idle" /\ exc = "none"

IsRedirectedExportCall ==
    /\ pc = "idle"
    /\ ret' = IsRedirectedExport(e, ad)
    /\ pc' = "done"
    /\ UNCHANGED <<regvars, exc, framevars, ad, genvars, loadvars>>

NextFwd == IsRedirectedExportCall

SpecFwd == InitFwd /\ [][NextFwd]_vars

\* C9: an address is classified as a forwarder only if a NUL byte lies within
\* the 512 bytes read from it, every byte before that NUL is allowed, and those
\* bytes contain a '.'.
C9_ForwarderNeedsTerminator ==
    (pc = "done" /\ ret.redirected)
    => \E n \in 0..(WindowLen - 1) :
          /\ Virt(e, ad + n) = NUL
          /\ \A j \in 0..(n - 1) : AllowedByte(Virt(e, ad + j))
          /\ \E j \in 0..(n - 1) : Virt(e, ad + j) = DOT

----------------------------------------------------------------------------
(* libimp_pe.gen_new_lib *)

\* the step between two slots of one import address table
ThunkStep == 4

SetMin(S) == CHOOSE m \in S : \A x \in S : m <= x

\* all_ads.sort()
RECURSIVE SortAsc(_)
SortAsc(S) == IF S = {} THEN <<>> ELSE <<SetMin(S)>> \o SortAsc(S \ {SetMin(S)})

\* target_pe.virt2rva(a)
Virt2Rva(tpe, a) == a - tpe.ImageBase

\* the addresses patched for the library at base b (the keys of out_ads)
DstAddresses(b) == UNION {lib_imp2dstad[b][id] : id \in DOMAIN lib_imp2dstad[b]}

\* the dicts out_ads can be: each address with an identifier it was patched for
OutAds(b) ==
    {f \in [DstAddresses(b) -> DOMAIN lib_imp2dstad[b]] :
        \A a \in DstAddresses(b) : a \in lib_imp2dstad[b][f[a]]}

\* "Keep non-NULL elements": the slice from the first element that is not
\* null, or from the last element when every element is null
KeepNonNull(all_ads) ==
    LET nonnull == {k \in 1..Len(all_ads) : all_ads[k] /= 0}
        i == IF nonnull = {} THEN Len(all_ads) ELSE SetMin(nonnull)
    IN  SubSeq(all_ads, i, Len(all_ads))

\* the inner while loop: the length of the run all_ads starts with
IatLength(all_ads) ==
    CHOOSE n \in 1..Len(all_ads) :
        /\ \A k \in 1..(n - 1) : all_ads[k] + ThunkStep = all_ads[k + 1]
        /\ n < Len(all_ads) => all_ads[n] + ThunkStep /= all_ads[n + 1]

\* the outer while loop: one descriptor per run, none for a run whose start
\* has no rva in the target
RECURSIVE Descriptors(_, _, _, _)
Descriptors(tpe, lib_name, out_ads, all_ads) ==
    IF all_ads = <<>> THEN <<>>
    ELSE LET n      == IatLength(all_ads)
             othunk == all_ads[1]
             funcs  == [k \in 1..n |-> out_ads[all_ads[k]]]
             rest   == SubSeq(all_ads, n + 1, Len(all_ads))
         IN  (IF othunk \in tpe.invalid THEN <<>>
              ELSE <<[name |-> lib_name, firstthunk |-> Virt2Rva(tpe, othunk),
                      funcs |-> funcs]>>)
             \o Descriptors(tpe, lib_name, out_ads, rest)

\* the body of the for loop over name2off.items() for one library
LibDescriptors(tpe, accepted, lib_name, b, out_ads) ==
    LET all_ads == {a \in DOMAIN out_ads : a \in accepted}
    IN  IF all_ads = {} THEN <<>>
        ELSE Descriptors(tpe, lib_name, out_ads, KeepNonNull(SortAsc(all_ads)))

RECURSIVE GenNewLib(_, _, _, _)
GenNewLib(tpe, accepted, items, outs) ==
    IF items = <<>> THEN <<>>
    ELSE LibDescriptors(tpe, accepted, items[1], name2off[items[1]], outs[items[1]])
         \o GenNewLib(tpe, accepted, Tail(items), outs)

\* the orders name2off.items() can list the libraries in
ItemOrders ==
    {s \in [1..Cardinality(DOMAIN name2off) -> DOMAIN name2off] :
        \A i, j \in DOMAIN s : i /= j => s[i] /= s[j]}

GenNewLibCall ==
    /\ pc = "idle"
    /\ \E items \in ItemOrders :
       \E outs \in {g \in [DOMAIN name2off -> UNION {OutAds(name2off[n]) : n \in DOMAIN name2off}] :
                        \A n \in DOMAIN name2off : g[n] \in OutAds(name2off[n])} :
          new_lib' = GenNewLib(target_pe, filt, items, outs)
    /\ pc' = "done"
    /\ UNCHANGED <<regvars, exc, framevars, fwdvars, target_pe, filt, loadvars>>

\* the slot addresses the calls are made with
GenAddrs == {0, 4096, 4100, 4104, 8192}

\* a registry whose libraries have patched slots: each identifier with patched
\* slots is resolved to the first slot it was asked for with
RegistryAfterImports(bases, dst) ==
    /\ name2off = bases
    /\ libbase2lastad = [b \in {bases[n] : n \in DOMAIN bases} |-> b + 1]
    /\ lib_imp2dstad = dst
    /\ lib_imp2ad = [b \in DOMAIN dst |-> [id \in DOMAIN dst[b] |-> SetMin(dst[b][id])]]
    /\ fad2cname = [a \in UNION {{SetMin(dst[b][id]) : id \in DOMAIN dst[b]} : b \in DOMAIN dst}
                      |-> <<>>]
    /\ fad2info = [a \in UNION {{SetMin(dst[b][id]) : id \in DOMAIN dst[b]} : b \in DOMAIN dst}
                      |-> <<>>]
    /\ libbase_ad = 4096 * Cardinality(DOMAIN bases)
    /\ all_exported_lib = <<>>

\* identifier -> slots, for the slots of foo and of bar
DstTable(sfoo, sbar) ==
    [id \in {NameId(n) : n \in {x \in ExportNames :
                (x = foo /\ sfoo /= {}) \/ (x = bar /\ sbar /= {})}}
        |-> IF id = NameId(foo) THEN sfoo ELSE sbar]

InitGen ==
    /\ FrameInit /\ FwdInit /\ LoadInit
    /\ pc = "idle" /\ exc = "none"
    /\ \E sfoo \in SUBSET GenAddrs, sbar \in SUBSET GenAddrs, sb \in {{}, {12288}} :
          \/ RegistryAfterImports([n \in {a_dll} |-> 65536],
                                  [b \in {65536} |-> DstTable(sfoo, sbar)])
          \/ RegistryAfterImports([n \in {a_dll, b_dll} |-> IF n = a_dll THEN 65536 ELSE 131072],
                                  [b \in {65536, 131072} |->
                                      IF b = 65536 THEN DstTable(sfoo, sbar) ELSE DstTable(sb, {})])
    /\ target_pe \in {[ImageBase |-> 0, wsize |-> w, invalid |-> inv] :
                         w \in {32, 64}, inv \in {{}, {8192}}}
    /\ filt \in {GenAddrs \cup {12288}, (GenAddrs \cup {12288}) \ {4100}}
    /\ new_lib = <<>>

NextGen == GenNewLibCall

SpecGen == InitGen /\ [][NextGen]_vars

\* the descriptors of one library, in the order emitted
RECURSIVE DescriptorsOf(_, _)
DescriptorsOf(descs, lib_name) ==
    IF descs = <<>> THEN <<>>
    ELSE (IF descs[1].name = lib_name THEN <<descs[1]>> ELSE <<>>)
         \o DescriptorsOf(Tail(descs), lib_name)

RECURSIVE EntriesBefore(_, _)
EntriesBefore(descs, k) ==
    IF k <= 1 THEN 0 ELSE Len(descs[k - 1].funcs) + EntriesBefore(descs, k - 1)

PointerWidth(tpe) == tpe.wsize \div 8

\* C6: for each library with an accepted non-null slot address the descriptors
\* are the maximal runs of the sorted, accepted, non-null slot addresses: every
\* address is in exactly one block,
\* addresses inside a block are one pointer width apart, and a block never
\* starts one pointer width after the end of the block before it.
C6_ImportBlocksAreMaximalRuns ==
    (pc = "done" /\ target_pe.invalid = {})
    => \A n \in DOMAIN name2off :
          LET addrs  == SortAsc({a \in DstAddresses(name2off[n]) : a \in filt /\ a /= 0})
              descs  == DescriptorsOf(new_lib, n)
              starts == {EntriesBefore(descs, k) + 1 : k \in 1..Len(descs)}
          IN  addrs /= <<>> =>
              /\ EntriesBefore(descs, Len(descs) + 1) = Len(addrs)
              /\ \A k \in 1..Len(descs) :
                    /\ Len(descs[k].funcs) >= 1
                    /\ EntriesBefore(descs, k) + 1 \in 1..Len(addrs)
                       => descs[k].firstthunk =
                            Virt2Rva(target_pe, addrs[EntriesBefore(descs, k) + 1])
              /\ \A t \in 1..(Len(addrs) - 1) :
                    (t + 1 \in starts) <=> (addrs[t + 1] - addrs[t] /= PointerWidth(target_pe))

----------------------------------------------------------------------------
(* vm_load_pe.  A byte string is [raw, pad]: raw bytes taken from the file  *)
(* followed by pad NUL bytes.                                               *)

Max(x, y) == IF x >= y THEN x ELSE y
Min(x, y) == IF x <= y THEN x ELSE y

DataLen(d) == d.raw + d.pad

\* s[:n] for n >= 0
Truncate(len, n) == Min(len, n)

\* x & 0xfffff000, for 0 <= x < 2^31 (the sizes of the images drawn below)
MaskPage(x) == x - (x % 4096)

\* "Check if all section are aligned": section.addr & 0xFFF is 0 for all
AllAligned(p) == \A i \in 1..Len(p.SHList) : p.SHList[i].addr % 4096 = 0

\* hdr_len = max(0x200, pe.NThdr.sizeofheaders)
HdrLen(p) == Max(512, p.sizeofheaders)

\* min_len = min(pe.SHList[0].addr, 0x1000)
MinLen(p) == Min(p.SHList[1].addr, 4096)

\* pe_hdr = pe.content[:hdr_len] + max(0, (min_len - hdr_len)) * "\x00"
PeHdr(p) == [raw |-> Truncate(p.contentlen, HdrLen(p)),
             pad |-> Max(0, MinLen(p) - HdrLen(p))]

Page(a, d) == [addr |-> a, access |-> "RW", data |-> d]

\* "Align sections size" of the aligned path
AlignedSections(p) ==
    LET n == Len(p.SHList) IN
    [i \in 1..n |->
        LET sec == p.SHList[i] IN
        IF i < n
          THEN LET new_size == p.SHList[i + 1].addr - sec.addr IN
               [addr |-> sec.addr, size |-> new_size, rawsize |-> new_size,
                offset |-> sec.addr, datalen |-> Truncate(sec.datalen, new_size)]
          ELSE [sec EXCEPT !.size = MaskPage(sec.size + 4095)]]

\* "Pad sections with null bytes and map them"
SectionPages(p, shl) ==
    [i \in 1..Len(shl) |->
        Page(p.ImageBase + shl[i].addr,
             [raw |-> shl[i].datalen, pad |-> Max(0, shl[i].size - shl[i].datalen)])]

\* the sizes, raw sizes and offsets set by the first loop of the unaligned path
UnalignedSections(p) ==
    LET n == Len(p.SHList) IN
    [i \in 1..n |->
        LET sec == p.SHList[i]
            sz  == IF i < n THEN p.SHList[i + 1].addr - sec.addr ELSE sec.size
        IN  [sec EXCEPT !.size = sz, !.rawsize = sz, !.offset = sec.addr]]

\* min_addr and max_addr after the sections 1..k; None is [set |-> FALSE]
RECURSIVE MinMax(_, _, _)
MinMax(shl, k, load_hdr) ==
    IF k = 0
      THEN [min |-> [set |-> load_hdr, v |-> 0], max |-> [set |-> FALSE, v |-> 0]]
      ELSE LET prev == MinMax(shl, k - 1, load_hdr)
               sec  == shl[k]
           IN  [min |-> IF ~prev.min.set \/ sec.addr < prev.min.v
                          THEN [set |-> TRUE, v |-> sec.addr] ELSE prev.min,
                max |-> IF ~prev.max.set \/ sec.addr + sec.size > prev.max.v
                          THEN [set |-> TRUE, v |-> sec.addr + Max(sec.size, sec.datalen)]
                          ELSE prev.max]

\* vm_load_pe, every section aligned: the header page, the sections resized,
\* one page per section; returns the PE
VmLoadPeAligned ==
    /\ pc = "idle"
    /\ AllAligned(fdata.pe)
    /\ LET p   == fdata.pe
           shl == IF fdata.align_s THEN AlignedSections(p) ELSE p.SHList
           hdr == IF fdata.load_hdr THEN <<Page(p.ImageBase, PeHdr(p))>> ELSE <<>>
       IN  /\ vm' = vm \o hdr \o SectionPages(p, shl)
           /\ fdata' = [fdata EXCEPT !.pe.SHList = shl]
    /\ pc' = "done"
    /\ UNCHANGED <<regvars, exc, framevars, fwdvars, genvars>>

\* vm_load_pe, some section not aligned: one page over all the sections, then
\* the copy loop, whose first statement reads the undefined name s
VmLoadPeUnaligned ==
    /\ pc = "idle"
    /\ ~AllAligned(fdata.pe)
    /\ LET p   == fdata.pe
           shl == UnalignedSections(p)
           mm  == MinMax(shl, Len(shl), fdata.load_hdr)
       IN  /\ vm' = Append(vm, Page(p.ImageBase + mm.min.v,
                                    [raw |-> 0, pad |-> Max(0, mm.max.v - mm.min.v)]))
           /\ fdata' = [fdata EXCEPT !.pe.SHList = shl]
    /\ pc' = "raised"
    /\ exc' = "NameError"
    /\ UNCHANGED <<regvars, framevars, fwdvars, genvars>>

\* the parsed images the calls are made with
SectionAddrs == {0, 4096, 8192, 4608}
SectionGaps  == {4096, 512}
SectionSizes == {512, 4096}
SectionData  == {512, 8192}

Sections(a) ==
    {[addr |-> a, size |-> sz, rawsize |-> sz, offset |-> 1024, datalen |-> dl] :
        sz \in SectionSizes, dl \in SectionData}

LoadImages ==
    {[ImageBase |-> 4194304, sizeofheaders |-> soh, contentlen |-> cl, SHList |-> shl] :
        soh \in {0, 1024, 4096, 8192},
        cl \in {256, 1024, 8192},
        shl \in UNION {
            {<<s1>> : s1 \in Sections(a)} \cup
            {<<s1, s2>> : s1 \in Sections(a), s2 \in UNION {Sections(a + g) : g \in SectionGaps}}
            : a \in SectionAddrs}}

InitLoad ==
    /\ RegistryInit /\ FrameInit /\ FwdInit /\ GenInit
    /\ pc = "idle" /\ exc = "none"
    /\ fdata \in {[pe |-> p, align_s |-> al, load_hdr |-> lh] :
                    p \in LoadImages, al \in BOOLEAN, lh \in BOOLEAN}
    /\ vm = <<>>

NextLoad == VmLoadPeAligned \/ VmLoadPeUnaligned

SpecLoad == InitLoad /\ [][NextLoad]_vars

\* C8: with load_hdr the header page mapped at ImageBase is at least
\* min(address of the first section, 0x1000) bytes and at least
\* max(0x200, SizeOfHeaders) bytes long.
C8_HeaderPageLength ==
    (pc = "done" /\ fdata.load_hdr)
    => /\ vm[1].addr = fdata.pe.ImageBase
       /\ DataLen(vm[1].data) >= Min(fdata.pe.SHList[1].addr, 4096)
       /\ DataLen(vm[1].data) >= Max(512, fdata.pe.sizeofheaders)

====
